---- MODULE Spec2Model ----
(***************************************************************************)
(* Model of src/main.py: the POST /start_call handler of the outbound-call *)
(* server, its four configuration builders (agent, transcriber,            *)
(* synthesizer, telephony), get_env_value, and GET /supported_services.    *)
(*                                                                         *)
(* Python values are modelled as strings (None is the token NoneV, numbers *)
(* and booleans are their repr), a dict is a function on its keys, and a   *)
(* raised exception is a record.  request.webhooks is passed through       *)
(* unchanged by the handler and is left out of the model.                  *)
(***************************************************************************)
EXTENDS Integers, Sequences, FiniteSets, TLC

VARIABLES env, request, pc, resolved, outbound, engine, response, envWrites

vars == <<env, request, pc, resolved, outbound, engine, response, envWrites>>

(***************************************************************************)
(* Bounds                                                                  *)
(***************************************************************************)
\* Environment variables unset (or empty) when the server starts
MaxUnset == 1

\* Optional fields a request fills in
MaxFields == 1

\* Changes made to the process environment while the server runs
MaxEnvWrites == 1

(***************************************************************************)
(* Python values                                                           *)
(***************************************************************************)
NoneV == "<None>"

\* `if value:` on an Optional[str]
Truthy(v) == v # NoneV /\ v # ""

EmptyDict == <<>>

\* d[k] = v
Put(d, k, v) == [x \in (DOMAIN d) \cup {k} |-> IF x = k THEN v ELSE d[x]]

\* d.setdefault(k, v)
SetDefault(d, k, v) == IF k \in DOMAIN d THEN d ELSE Put(d, k, v)

\* BaseMessage(text=t)
BaseMessage(t) == [text |-> t]

(***************************************************************************)
(* Module-level constants of main.py                                       *)
(***************************************************************************)
BASE_URL == "base.example"

DEFAULT_BOT_PROMPT == "Role: You are a native American lead debt relief consultant ..."

AGENT_CONFIG_MAP ==
    [chatgpt |-> "ChatGPTAgentConfig", anthropic |-> "AnthropicAgentConfig",
     groq |-> "GroqAgentConfig", vertex_ai |-> "ChatVertexAIAgentConfig",
     echo |-> "EchoAgentConfig", llm |-> "LLMAgentConfig"]

TRANSCRIBER_CONFIG_MAP ==
    [azure |-> "AzureTranscriberConfig", deepgram |-> "DeepgramTranscriberConfig",
     google |-> "GoogleTranscriberConfig", assembly_ai |-> "AssemblyAITranscriberConfig",
     whisper_cpp |-> "WhisperCPPTranscriberConfig", rev_ai |-> "RevAITranscriberConfig",
     gladia |-> "GladiaTranscriberConfig"]

SYNTHESIZER_CONFIG_MAP ==
    [azure |-> "AzureSynthesizerConfig", eleven_labs |-> "ElevenLabsSynthesizerConfig",
     google |-> "GoogleSynthesizerConfig", rime |-> "RimeSynthesizerConfig",
     coqui |-> "CoquiSynthesizerConfig", play_ht |-> "PlayHtSynthesizerConfig",
     gtts |-> "GTTSSynthesizerConfig", bark |-> "BarkSynthesizerConfig",
     polly |-> "PollySynthesizerConfig", cartesia |-> "CartesiaSynthesizerConfig"]

\* The process environment variables that get_env_value is asked for.
EnvNames ==
    {"TWILIO_PHONE_NUMBER", "TWILIO_ACCOUNT_SID", "TWILIO_AUTH_TOKEN",
     "OPENAI_API_KEY", "ANTHROPIC_API_KEY", "GROQ_API_KEY",
     "DEEPGRAM_API_KEY", "AZURE_SPEECH_KEY", "AZURE_SPEECH_REGION",
     "ASSEMBLY_AI_API_KEY", "REV_AI_API_KEY", "GLADIA_API_KEY",
     "ELEVEN_LABS_API_KEY", "ELEVEN_LABS_VOICE_ID",
     "PLAY_HT_API_KEY", "PLAY_HT_USER_ID", "RIME_API_KEY", "CARTESIA_API_KEY",
     "AWS_ACCESS_KEY_ID", "AWS_SECRET_ACCESS_KEY", "AWS_REGION"}

(***************************************************************************)
(* Exceptions                                                              *)
(***************************************************************************)
NoError == [kind |-> "none", status_code |-> 0, detail |-> ""]

\* HTTPException(status_code=..., detail=...)
HTTPException(status_code, detail) ==
    [kind |-> "HTTPException", status_code |-> status_code, detail |-> detail]

\* An exception raised by OutboundCall.start() with message msg
EngineError(msg) == [kind |-> "Exception", status_code |-> 0, detail |-> msg]

StatusText(n) == IF n = 400 THEN "400" ELSE IF n = 500 THEN "500" ELSE "0"

\* str(e): a plain exception prints its message, an HTTPException prints
\* "<status_code>: <detail>".
Str(e) ==
    IF e.kind = "HTTPException"
    THEN StatusText(e.status_code) \o ": " \o e.detail
    ELSE e.detail

(***************************************************************************)
(* get_env_value                                                           *)
(***************************************************************************)
\* request.env_vars is None, or an EnvironmentVariables object whose unset
\* fields are None.
NoEnvVars == [given |-> FALSE, vals |-> EmptyDict]

EnvVars(vals) == [given |-> TRUE, vals |-> vals]

\* getattr(request_env_vars, key, None)
GetAttr(request_env_vars, key) ==
    IF key \in DOMAIN request_env_vars.vals THEN request_env_vars.vals[key] ELSE NoneV

\* The environment the server is started in when every variable is set, each
\* to a value of its own.
AllSet == [n \in EnvNames |-> "env-" \o n]

\* A lookup in a copy of the environment taken when the server started
OsGetenv_Startup(env_key) == AllSet[env_key]

\* os.getenv(env_key)
OsGetenv(env_key) == env[env_key]

MissingDetail(env_key) ==
    "Required environment variable '" \o env_key
        \o "' not found in request or system environment"

Returned(v) == [ok |-> TRUE, value |-> v, err |-> NoError]

Raised(e) == [ok |-> FALSE, value |-> NoneV, err |-> e]

\* get_env_value consulting the process environment before the override
get_env_value_EnvFirst(request_env_vars, key, env_key) ==
    IF Truthy(OsGetenv(env_key))
    THEN Returned(OsGetenv(env_key))
    ELSE IF request_env_vars.given /\ Truthy(GetAttr(request_env_vars, key))
         THEN Returned(GetAttr(request_env_vars, key))
         ELSE Raised(HTTPException(400, MissingDetail(env_key)))

get_env_value(request_env_vars, key, env_key) ==
    IF request_env_vars.given /\ Truthy(GetAttr(request_env_vars, key))
    THEN Returned(GetAttr(request_env_vars, key))
    ELSE IF Truthy(OsGetenv(env_key))
         THEN Returned(OsGetenv(env_key))
         ELSE Raised(HTTPException(400, MissingDetail(env_key)))

\* One call of get_env_value as a resolution records it: the arguments and
\* the outcome.
Lookup(request_env_vars, key, env_key) ==
    [key |-> key, env_key |-> env_key,
     res |-> get_env_value(request_env_vars, key, env_key)]

(***************************************************************************)
(* Builders                                                                *)
(***************************************************************************)
\* AgentConfiguration / TranscriberConfiguration / SynthesizerConfiguration /
\* TelephonyConfiguration: an optional request field holding type and config.
NoSelector == [given |-> FALSE, type |-> "", config |-> EmptyDict]

Selector(type, config) == [given |-> TRUE, type |-> type, config |-> config]

NoConfig == [class |-> "", params |-> EmptyDict]

\* cls(**config_dict)
Construct(cls, config_dict) == [class |-> cls, params |-> config_dict]

\* Outcome of a builder: the object it returns or the exception it raises,
\* with the get_env_value calls it made, in order.
Built(config, lookups) ==
    [ok |-> TRUE, config |-> config, err |-> NoError, lookups |-> lookups]

Failed(e, lookups) ==
    [ok |-> FALSE, config |-> NoConfig, err |-> e, lookups |-> lookups]

NotBuilt == [ok |-> FALSE, config |-> NoConfig, err |-> NoError, lookups |-> <<>>]

\* The secret assignments with a failed lookup swallowed: the parameter is
\* left out and the builder goes on.
RECURSIVE PutSecrets_Swallow(_, _, _, _)
PutSecrets_Swallow(config_dict, env_vars, secrets, lookups) ==
    IF secrets = <<>>
    THEN [ok |-> TRUE, dict |-> config_dict, err |-> NoError, lookups |-> lookups]
    ELSE LET s == Head(secrets)
             l == Lookup(env_vars, s[2], s[3])
         IN  PutSecrets_Swallow(IF l.res.ok THEN Put(config_dict, s[1], l.res.value)
                                ELSE config_dict,
                                env_vars, Tail(secrets), Append(lookups, l))

\* Consecutive statements  config_dict[param] = get_env_value(env_vars, key, env_key)
\* for the <<param, key, env_key>> of secrets, in order; the first call that
\* raises ends the builder.
RECURSIVE PutSecrets(_, _, _, _)
PutSecrets(config_dict, env_vars, secrets, lookups) ==
    IF secrets = <<>>
    THEN [ok |-> TRUE, dict |-> config_dict, err |-> NoError, lookups |-> lookups]
    ELSE LET s == Head(secrets)
             l == Lookup(env_vars, s[2], s[3])
         IN  IF l.res.ok
             THEN PutSecrets(Put(config_dict, s[1], l.res.value), env_vars,
                             Tail(secrets), Append(lookups, l))
             ELSE [ok |-> FALSE, dict |-> config_dict, err |-> l.res.err,
                   lookups |-> Append(lookups, l)]

\* try: config_dict[param] = get_env_value(...)  except: pass
PutSecretOrPass(config_dict, env_vars, param, key, env_key) ==
    LET l == Lookup(env_vars, key, env_key)
    IN  [dict |-> IF l.res.ok THEN Put(config_dict, param, l.res.value) ELSE config_dict,
         lookups |-> <<l>>]

AgentDefaults(config_dict) ==
    LET d1 == SetDefault(config_dict, "generate_responses", "True")
        d2 == SetDefault(d1, "send_filler_audio", "True")
        d3 == SetDefault(d2, "end_conversation_on_goodbye", "True")
        d4 == SetDefault(d3, "allow_agent_to_be_cut_off", "True")
        d5 == SetDefault(d4, "allowed_idle_time_seconds", "15")
    IN  SetDefault(d5, "interrupt_sensitivity", "high")

AgentPrompt(config_dict, prompt_preamble) ==
    IF Truthy(prompt_preamble)
    THEN Put(config_dict, "prompt_preamble", prompt_preamble)
    ELSE SetDefault(config_dict, "prompt_preamble", DEFAULT_BOT_PROMPT)

AgentInitialMessage(config_dict, initial_message) ==
    IF Truthy(initial_message)
    THEN Put(config_dict, "initial_message", BaseMessage(initial_message))
    ELSE SetDefault(config_dict, "initial_message",
                    BaseMessage("Hi, How are you doing today?"))

AgentApiKey(type, config_dict, env_vars) ==
    IF type = "chatgpt" /\ "openai_api_key" \notin DOMAIN config_dict
    THEN PutSecretOrPass(config_dict, env_vars, "openai_api_key",
                         "openai_api_key", "OPENAI_API_KEY")
    ELSE IF type = "anthropic" /\ "api_key" \notin DOMAIN config_dict
    THEN PutSecretOrPass(config_dict, env_vars, "api_key",
                         "anthropic_api_key", "ANTHROPIC_API_KEY")
    ELSE IF type = "groq" /\ "api_key" \notin DOMAIN config_dict
    THEN PutSecretOrPass(config_dict, env_vars, "api_key",
                         "groq_api_key", "GROQ_API_KEY")
    ELSE [dict |-> config_dict, lookups |-> <<>>]

AgentModel(type, config_dict) ==
    IF type = "chatgpt" THEN SetDefault(config_dict, "model_name", "gpt-4o")
    ELSE config_dict

DefaultAgent == Selector("chatgpt", EmptyDict)

create_agent_config(agent_config, prompt_preamble, initial_message, env_vars) ==
    LET sel == IF agent_config.given THEN agent_config ELSE DefaultAgent
    IN  IF sel.type \notin DOMAIN AGENT_CONFIG_MAP
        THEN Failed(HTTPException(400, "Unsupported agent type: " \o sel.type), <<>>)
        ELSE LET d1 == AgentPrompt(sel.config, prompt_preamble)
                 d2 == AgentInitialMessage(d1, initial_message)
                 d3 == AgentDefaults(d2)
                 k  == AgentApiKey(sel.type, d3, env_vars)
             IN  Built(Construct(AGENT_CONFIG_MAP[sel.type], AgentModel(sel.type, k.dict)),
                       k.lookups)

(***************************************************************************)
(* Transcriber                                                             *)
(***************************************************************************)
TranscriberDefaults(config_dict) ==
    LET d1 == SetDefault(config_dict, "sampling_rate", "8000")
        d2 == SetDefault(d1, "audio_encoding", "mulaw")
        d3 == SetDefault(d2, "chunk_size", "3200")
        d4 == SetDefault(d3, "language", "en")
        d5 == SetDefault(d4, "mute_during_speech", "False")
    IN  SetDefault(d5, "endpointing_config", "PunctuationEndpointingConfig()")

\* The if/elif chain that sets the API keys: the secrets the selected branch
\* looks up, as <<param, key, env_key>>.
TranscriberSecrets(type, config_dict) ==
    IF type = "deepgram" /\ "api_key" \notin DOMAIN config_dict
    THEN << <<"api_key", "deepgram_api_key", "DEEPGRAM_API_KEY">> >>
    ELSE IF type = "azure" /\ "speech_key" \notin DOMAIN config_dict
    THEN << <<"speech_key", "azure_speech_key", "AZURE_SPEECH_KEY">>,
            <<"speech_region", "azure_speech_region", "AZURE_SPEECH_REGION">> >>
    ELSE IF type = "assembly_ai" /\ "api_key" \notin DOMAIN config_dict
    THEN << <<"api_key", "assembly_ai_api_key", "ASSEMBLY_AI_API_KEY">> >>
    ELSE IF type = "rev_ai" /\ "api_key" \notin DOMAIN config_dict
    THEN << <<"api_key", "rev_ai_api_key", "REV_AI_API_KEY">> >>
    ELSE IF type = "gladia" /\ "api_key" \notin DOMAIN config_dict
    THEN << <<"api_key", "gladia_api_key", "GLADIA_API_KEY">> >>
    ELSE <<>>

\* The model default sits inside the deepgram branch, after the key lookup.
TranscriberModel(type, caller_dict, config_dict) ==
    IF type = "deepgram" /\ "api_key" \notin DOMAIN caller_dict
    THEN SetDefault(config_dict, "model", "nova-2")
    ELSE config_dict

DefaultTranscriber == Selector("deepgram", EmptyDict)

create_transcriber_config(transcriber_config, env_vars) ==
    LET sel == IF transcriber_config.given THEN transcriber_config ELSE DefaultTranscriber
    IN  IF sel.type \notin DOMAIN TRANSCRIBER_CONFIG_MAP
        THEN Failed(HTTPException(400, "Unsupported transcriber type: " \o sel.type), <<>>)
        ELSE LET d == TranscriberDefaults(sel.config)
                 k == PutSecrets(d, env_vars, TranscriberSecrets(sel.type, d), <<>>)
             IN  IF k.ok
                 THEN Built(Construct(TRANSCRIBER_CONFIG_MAP[sel.type],
                                      TranscriberModel(sel.type, d, k.dict)),
                            k.lookups)
                 ELSE Failed(k.err, k.lookups)

(***************************************************************************)
(* Synthesizer                                                             *)
(***************************************************************************)
SynthesizerDefaults(config_dict) ==
    SetDefault(SetDefault(config_dict, "sampling_rate", "8000"), "audio_encoding", "mulaw")

\* The secrets each branch assigns unconditionally, as <<param, key, env_key>>.
SynthesizerSecrets(type) ==
    IF type = "eleven_labs"
    THEN << <<"api_key", "eleven_labs_api_key", "ELEVEN_LABS_API_KEY">> >>
    ELSE IF type = "azure"
    THEN << <<"speech_key", "azure_speech_key", "AZURE_SPEECH_KEY">>,
            <<"speech_region", "azure_speech_region", "AZURE_SPEECH_REGION">> >>
    ELSE IF type = "play_ht"
    THEN << <<"api_key", "play_ht_api_key", "PLAY_HT_API_KEY">>,
            <<"user_id", "play_ht_user_id", "PLAY_HT_USER_ID">> >>
    ELSE IF type = "rime"
    THEN << <<"api_key", "rime_api_key", "RIME_API_KEY">> >>
    ELSE IF type = "cartesia"
    THEN << <<"api_key", "cartesia_api_key", "CARTESIA_API_KEY">> >>
    ELSE IF type = "polly"
    THEN << <<"aws_access_key_id", "aws_access_key_id", "AWS_ACCESS_KEY_ID">>,
            <<"aws_secret_access_key", "aws_secret_access_key", "AWS_SECRET_ACCESS_KEY">> >>
    ELSE <<>>

DEFAULT_VOICE_ID == "9BWtsMINqrJLrRacOk9x"

\* if "voice_id" not in config_dict: try get_env_value except: default voice
ElevenLabsVoice(config_dict, env_vars) ==
    IF "voice_id" \in DOMAIN config_dict
    THEN [dict |-> config_dict, lookups |-> <<>>]
    ELSE LET l == Lookup(env_vars, "eleven_labs_voice_id", "ELEVEN_LABS_VOICE_ID")
         IN  [dict |-> Put(config_dict, "voice_id",
                           IF l.res.ok THEN l.res.value ELSE DEFAULT_VOICE_ID),
              lookups |-> <<l>>]

ElevenLabsDefaults(config_dict) ==
    LET d1 == SetDefault(config_dict, "optimize_streaming_latency", "1")
        d2 == SetDefault(d1, "experimental_streaming", "False")
        d3 == SetDefault(d2, "stability", "0.75")
        d4 == SetDefault(d3, "similarity_boost", "0.75")
        d5 == SetDefault(d4, "model_id", "eleven_flash_v2_5")
        d6 == SetDefault(d5, "experimental_websocket", "False")
    IN  SetDefault(d6, "backchannel_amplitude_factor", "0.5")

AzureSynthDefaults(config_dict) ==
    LET d1 == SetDefault(config_dict, "voice_name", "en-US-SteffanNeural")
        d2 == SetDefault(d1, "pitch", "0")
        d3 == SetDefault(d2, "rate", "15")
    IN  SetDefault(d3, "language_code", "en-US")

\* What follows the unconditional secrets in the selected branch.
SynthesizerRest(type, config_dict, env_vars, lookups) ==
    IF type = "eleven_labs"
    THEN LET v == ElevenLabsVoice(config_dict, env_vars)
         IN  [ok |-> TRUE, dict |-> ElevenLabsDefaults(v.dict), err |-> NoError,
              lookups |-> lookups \o v.lookups]
    ELSE IF type = "azure"
    THEN [ok |-> TRUE, dict |-> AzureSynthDefaults(config_dict), err |-> NoError,
          lookups |-> lookups]
    ELSE IF type = "polly"
    THEN \* setdefault("region_name", get_env_value(...)): the argument is
         \* evaluated before setdefault looks at the dict
         LET l == Lookup(env_vars, "aws_region", "AWS_REGION")
         IN  IF l.res.ok
             THEN [ok |-> TRUE, dict |-> SetDefault(config_dict, "region_name", l.res.value),
                   err |-> NoError, lookups |-> Append(lookups, l)]
             ELSE [ok |-> FALSE, dict |-> config_dict, err |-> l.res.err,
                   lookups |-> Append(lookups, l)]
    ELSE [ok |-> TRUE, dict |-> config_dict, err |-> NoError, lookups |-> lookups]

\* A default synthesizer other than the one the response reports
DefaultSynthesizer_Azure == Selector("azure", EmptyDict)

DefaultSynthesizer == Selector("eleven_labs", EmptyDict)

create_synthesizer_config(synthesizer_config, env_vars) ==
    LET sel == IF synthesizer_config.given THEN synthesizer_config ELSE DefaultSynthesizer
    IN  IF sel.type \notin DOMAIN SYNTHESIZER_CONFIG_MAP
        THEN Failed(HTTPException(400, "Unsupported synthesizer type: " \o sel.type), <<>>)
        ELSE LET d == SynthesizerDefaults(sel.config)
                 k == PutSecrets(d, env_vars, SynthesizerSecrets(sel.type), <<>>)
             IN  IF ~k.ok
                 THEN Failed(k.err, k.lookups)
                 ELSE LET r == SynthesizerRest(sel.type, k.dict, env_vars, k.lookups)
                      IN  IF r.ok
                          THEN Built(Construct(SYNTHESIZER_CONFIG_MAP[sel.type], r.dict),
                                     r.lookups)
                          ELSE Failed(r.err, r.lookups)

(***************************************************************************)
(* Telephony                                                               *)
(***************************************************************************)
DefaultTelephony == Selector("twilio", EmptyDict)

TelephonySecrets ==
    << <<"account_sid", "twilio_account_sid", "TWILIO_ACCOUNT_SID">>,
       <<"auth_token", "twilio_auth_token", "TWILIO_AUTH_TOKEN">> >>

create_telephony_config(telephony_config, env_vars) ==
    LET sel == IF telephony_config.given THEN telephony_config ELSE DefaultTelephony
    IN  IF sel.type = "twilio"
        THEN LET k == PutSecrets(sel.config, env_vars, TelephonySecrets, <<>>)
             IN  IF k.ok
                 THEN Built(Construct("TwilioConfig", k.dict), k.lookups)
                 ELSE Failed(k.err, k.lookups)
        ELSE Failed(HTTPException(400, "Unsupported telephony type: " \o sel.type), <<>>)

\* GET /supported_services advertising a carrier the builder does not accept
get_supported_services_ExtraCarrier ==
    [agents |-> DOMAIN AGENT_CONFIG_MAP,
     transcribers |-> DOMAIN TRANSCRIBER_CONFIG_MAP,
     synthesizers |-> DOMAIN SYNTHESIZER_CONFIG_MAP,
     telephony |-> {"twilio", "vonage"}]

\* GET /supported_services
get_supported_services ==
    [agents |-> DOMAIN AGENT_CONFIG_MAP,
     transcribers |-> DOMAIN TRANSCRIBER_CONFIG_MAP,
     synthesizers |-> DOMAIN SYNTHESIZER_CONFIG_MAP,
     telephony |-> {"twilio"}]

(***************************************************************************)
(* POST /start_call                                                        *)
(***************************************************************************)
\* CallRequest
CallRequest(to_phone, env_vars, agent, transcriber, synthesizer, telephony, base_url, from_phone, prompt_preamble, initial_message) ==
    [to_phone |-> to_phone, env_vars |-> env_vars, agent |-> agent,
     transcriber |-> transcriber, synthesizer |-> synthesizer,
     telephony |-> telephony, base_url |-> base_url, from_phone |-> from_phone,
     prompt_preamble |-> prompt_preamble, initial_message |-> initial_message]

\* from_phone = request.from_phone; if not from_phone: get_env_value(...)
ResolveFromPhone(req) ==
    IF Truthy(req.from_phone)
    THEN [res |-> Returned(req.from_phone), lookups |-> <<>>]
    ELSE LET l == Lookup(req.env_vars, "twilio_phone_number", "TWILIO_PHONE_NUMBER")
         IN  [res |-> l.res, lookups |-> <<l>>]

\* The try block calling the synthesizer builder before the transcriber one
Resolve_SynthesizerFirst(req) ==
    LET f == ResolveFromPhone(req)
        a == create_agent_config(req.agent, req.prompt_preamble,
                                 req.initial_message, req.env_vars)
        t == create_transcriber_config(req.transcriber, req.env_vars)
        s == create_synthesizer_config(req.synthesizer, req.env_vars)
        p == create_telephony_config(req.telephony, req.env_vars)
        base == [from_phone |-> f.res, origin_lookups |-> f.lookups,
                 agent |-> NotBuilt, transcriber |-> NotBuilt,
                 synthesizer |-> NotBuilt, telephony |-> NotBuilt,
                 invoked |-> <<>>, err |-> f.res.err]
    IN  IF ~f.res.ok THEN base
        ELSE IF ~a.ok
        THEN [base EXCEPT !.agent = a, !.invoked = <<"agent">>, !.err = a.err]
        ELSE IF ~s.ok
        THEN [base EXCEPT !.agent = a, !.synthesizer = s,
                          !.invoked = <<"agent", "synthesizer">>, !.err = s.err]
        ELSE IF ~t.ok
        THEN [base EXCEPT !.agent = a, !.transcriber = t, !.synthesizer = s,
                          !.invoked = <<"agent", "synthesizer", "transcriber">>,
                          !.err = t.err]
        ELSE [base EXCEPT !.agent = a, !.transcriber = t, !.synthesizer = s,
                          !.telephony = p,
                          !.invoked = <<"agent", "synthesizer", "transcriber", "telephony">>,
                          !.err = p.err]

\* The statements of the try block before OutboundCall is constructed, run
\* in order up to the first exception.  invoked lists the builders that ran,
\* err is the exception that left the block (NoError if none did).
Resolve(req) ==
    LET f == ResolveFromPhone(req)
        a == create_agent_config(req.agent, req.prompt_preamble,
                                 req.initial_message, req.env_vars)
        t == create_transcriber_config(req.transcriber, req.env_vars)
        s == create_synthesizer_config(req.synthesizer, req.env_vars)
        p == create_telephony_config(req.telephony, req.env_vars)
        base == [from_phone |-> f.res, origin_lookups |-> f.lookups,
                 agent |-> NotBuilt, transcriber |-> NotBuilt,
                 synthesizer |-> NotBuilt, telephony |-> NotBuilt,
                 invoked |-> <<>>, err |-> f.res.err]
    IN  IF ~f.res.ok THEN base
        ELSE IF ~a.ok
        THEN [base EXCEPT !.agent = a, !.invoked = <<"agent">>, !.err = a.err]
        ELSE IF ~t.ok
        THEN [base EXCEPT !.agent = a, !.transcriber = t,
                          !.invoked = <<"agent", "transcriber">>, !.err = t.err]
        ELSE IF ~s.ok
        THEN [base EXCEPT !.agent = a, !.transcriber = t, !.synthesizer = s,
                          !.invoked = <<"agent", "transcriber", "synthesizer">>,
                          !.err = s.err]
        ELSE [base EXCEPT !.agent = a, !.transcriber = t, !.synthesizer = s,
                          !.telephony = p,
                          !.invoked = <<"agent", "transcriber", "synthesizer", "telephony">>,
                          !.err = p.err]

Unresolved ==
    [from_phone |-> Raised(NoError), origin_lookups |-> <<>>,
     agent |-> NotBuilt, transcriber |-> NotBuilt, synthesizer |-> NotBuilt,
     telephony |-> NotBuilt, invoked |-> <<>>, err |-> NoError]

\* request.base_url or BASE_URL
CallBaseUrl(req) == IF Truthy(req.base_url) THEN req.base_url ELSE BASE_URL

NoOutboundCall ==
    [created |-> FALSE, base_url |-> "", to_phone |-> "", from_phone |-> "",
     agent_config |-> NoConfig, telephony_config |-> NoConfig,
     transcriber_config |-> NoConfig, synthesizer_config |-> NoConfig]

\* OutboundCall(base_url=..., to_phone=..., from_phone=..., agent_config=..., ...)
OutboundCall(req, res) ==
    [created |-> TRUE, base_url |-> CallBaseUrl(req), to_phone |-> req.to_phone,
     from_phone |-> res.from_phone.value,
     agent_config |-> res.agent.config, telephony_config |-> res.telephony.config,
     transcriber_config |-> res.transcriber.config,
     synthesizer_config |-> res.synthesizer.config]

\* start_call going on to dispatch without looking at the telephony builder
ReachesStart_SkipTelephony(res) ==
    res.from_phone.ok /\ res.agent.ok /\ res.transcriber.ok /\ res.synthesizer.ok

\* The try block reaches OutboundCall(...) and outbound_call.start() only if
\* no statement before them raised.
ReachesStart(res) == res.err = NoError

NoConfiguration ==
    [agent_type |-> "", transcriber_type |-> "", synthesizer_type |-> "",
     telephony_type |-> ""]

\* The "configuration" block of the returned dict
ResponseConfiguration(req) ==
    [agent_type |-> IF req.agent.given THEN req.agent.type ELSE "chatgpt",
     transcriber_type |-> IF req.transcriber.given THEN req.transcriber.type ELSE "deepgram",
     synthesizer_type |-> IF req.synthesizer.given THEN req.synthesizer.type ELSE "eleven_labs",
     telephony_type |-> IF req.telephony.given THEN req.telephony.type ELSE "twilio"]

NoResponse ==
    [status_code |-> 0, detail |-> "", message |-> "",
     configuration |-> NoConfiguration, execution_id |-> "", telephony_id |-> "",
     to_phone |-> "", from_phone |-> ""]

\* return {...}: the 200 response
SuccessResponse(req, from_phone, engine_response) ==
    [status_code |-> 200, detail |-> "",
     message |-> "Call started to " \o req.to_phone,
     configuration |-> ResponseConfiguration(req),
     execution_id |-> engine_response.conversation_id,
     telephony_id |-> engine_response.telephony_id,
     to_phone |-> req.to_phone, from_phone |-> from_phone]

\* except Exception as e: raise HTTPException(status_code=500, ...)
\* HTTPException derives from Exception, so the handler also catches the
\* HTTPExceptions raised by get_env_value and the builders.
ErrorResponse(e) ==
    [NoResponse EXCEPT !.status_code = 500,
                       !.detail = "Failed to start call: " \o Str(e)]

NoEngine == [calls |-> 0, outcome |-> "none", cause |-> ""]

\* start_call exporting the request's carrier overrides into the process
\* environment before it resolves.
StartCall_ExportOverrides(r, reqs) ==
    /\ pc[r] = "idle"
    /\ \E req \in reqs :
         LET res == Resolve(req)
             ov(key, n) == IF req.env_vars.given /\ Truthy(GetAttr(req.env_vars, key))
                           THEN GetAttr(req.env_vars, key) ELSE env[n]
         IN  /\ request' = [request EXCEPT ![r] = req]
             /\ resolved' = [resolved EXCEPT ![r] = res]
             /\ env' = [env EXCEPT !["TWILIO_ACCOUNT_SID"] = ov("twilio_account_sid", "TWILIO_ACCOUNT_SID"),
                                   !["TWILIO_AUTH_TOKEN"] = ov("twilio_auth_token", "TWILIO_AUTH_TOKEN"),
                                   !["TWILIO_PHONE_NUMBER"] = ov("twilio_phone_number", "TWILIO_PHONE_NUMBER")]
             /\ IF ReachesStart(res)
                THEN /\ outbound' = [outbound EXCEPT ![r] = OutboundCall(req, res)]
                     /\ engine' = [engine EXCEPT ![r].calls = @ + 1]
                     /\ pc' = [pc EXCEPT ![r] = "awaiting"]
                     /\ UNCHANGED response
                ELSE /\ response' = [response EXCEPT ![r] = ErrorResponse(res.err)]
                     /\ pc' = [pc EXCEPT ![r] = "done"]
                     /\ UNCHANGED <<outbound, engine>>
    /\ UNCHANGED envWrites

\* start_call up to its only await: resolution, then either the except
\* clause answers or OutboundCall is built and start() is invoked.
StartCall(r, reqs) ==
    /\ pc[r] = "idle"
    /\ \E req \in reqs :
         LET res == Resolve(req)
         IN  /\ request' = [request EXCEPT ![r] = req]
             /\ resolved' = [resolved EXCEPT ![r] = res]
             /\ IF ReachesStart(res)
                THEN /\ outbound' = [outbound EXCEPT ![r] = OutboundCall(req, res)]
                     /\ engine' = [engine EXCEPT ![r].calls = @ + 1]
                     /\ pc' = [pc EXCEPT ![r] = "awaiting"]
                     /\ UNCHANGED response
                ELSE /\ response' = [response EXCEPT ![r] = ErrorResponse(res.err)]
                     /\ pc' = [pc EXCEPT ![r] = "done"]
                     /\ UNCHANGED <<outbound, engine>>
    /\ UNCHANGED <<env, envWrites>>

\* outbound_call.start() returns: the handler builds the 200 response.
StartReturns(r, engine_response) ==
    /\ pc[r] = "awaiting"
    /\ engine' = [engine EXCEPT ![r].outcome = "returned"]
    /\ response' = [response EXCEPT ![r] =
                       SuccessResponse(request[r], outbound[r].from_phone, engine_response)]
    /\ pc' = [pc EXCEPT ![r] = "done"]
    /\ UNCHANGED <<env, request, resolved, outbound, envWrites>>

\* outbound_call.start() raises and the handler invokes it once more before
\* answering.
StartRaises_Retry(r, msg) ==
    /\ pc[r] = "awaiting"
    /\ engine' = [engine EXCEPT ![r].calls = @ + 1, ![r].outcome = "raised", ![r].cause = msg]
    /\ response' = [response EXCEPT ![r] = ErrorResponse(EngineError(msg))]
    /\ pc' = [pc EXCEPT ![r] = "done"]
    /\ UNCHANGED <<env, request, resolved, outbound, envWrites>>

\* outbound_call.start() raises: the except clause answers, nothing is retried.
StartRaises(r, msg) ==
    /\ pc[r] = "awaiting"
    /\ engine' = [engine EXCEPT ![r].outcome = "raised", ![r].cause = msg]
    /\ response' = [response EXCEPT ![r] = ErrorResponse(EngineError(msg))]
    /\ pc' = [pc EXCEPT ![r] = "done"]
    /\ UNCHANGED <<env, request, resolved, outbound, envWrites>>

(***************************************************************************)
(* The process environment                                                 *)
(***************************************************************************)
\* Something outside the handler (the operator, another thread) sets or
\* unsets a process environment variable.
SetEnv(n, v) ==
    /\ envWrites < MaxEnvWrites
    /\ env[n] # v
    /\ env' = [env EXCEPT ![n] = v]
    /\ envWrites' = envWrites + 1
    /\ UNCHANGED <<request, pc, resolved, outbound, engine, response>>

(***************************************************************************)
(* Inputs                                                                  *)
(***************************************************************************)
\* Fields of EnvironmentVariables
OverrideFields ==
    {"twilio_account_sid", "twilio_auth_token", "twilio_phone_number",
     "openai_api_key", "openai_api_base",
     "azure_speech_key", "azure_speech_region", "azure_openai_api_key",
     "azure_openai_endpoint", "anthropic_api_key",
     "google_credentials_path", "google_application_credentials",
     "deepgram_api_key", "eleven_labs_api_key", "eleven_labs_voice_id",
     "groq_api_key", "play_ht_api_key", "play_ht_user_id", "rime_api_key",
     "assembly_ai_api_key", "rev_ai_api_key", "gladia_api_key",
     "cartesia_api_key", "aws_access_key_id", "aws_secret_access_key",
     "aws_region"}

\* No variable set.
NoneSet == [n \in EnvNames |-> NoneV]

RECURSIVE SubsetsUpTo(_, _)
SubsetsUpTo(S, k) ==
    IF k = 0 THEN {{}}
    ELSE LET smaller == SubsetsUpTo(S, k - 1)
         IN  smaller \cup {T \cup {x} : T \in smaller, x \in S}

\* Every variable set to the empty string.
EmptySet == [n \in EnvNames |-> ""]

\* The environments a run starts in: all variables set except at most
\* MaxUnset that are unset, or all empty, or none set.
Environments ==
    {NoneSet, EmptySet} \cup
    {[n \in EnvNames |-> IF n \in U THEN NoneV ELSE AllSet[n]] :
        U \in SubsetsUpTo(EnvNames, MaxUnset)}

\* env_vars objects: every field overridden (two callers' values), no field
\* set, and one with empty strings among its fields.
FullOverride(tag) == EnvVars([k \in OverrideFields |-> tag \o k])

PartialOverride ==
    EnvVars([twilio_phone_number |-> "", openai_api_key |-> "",
             deepgram_api_key |-> "ovA-deepgram_api_key",
             eleven_labs_api_key |-> "", eleven_labs_voice_id |-> "ovA-eleven_labs_voice_id",
             azure_speech_key |-> "ovA-azure_speech_key",
             twilio_auth_token |-> "ovA-twilio_auth_token"])

EnvVarsOptions == {FullOverride("ovA-"), EnvVars(EmptyDict), PartialOverride}

AgentOptions ==
    {Selector("chatgpt", EmptyDict),
     Selector("chatgpt", [openai_api_key |-> "cfg-openai", prompt_preamble |-> "cfg-prompt",
                          model_name |-> "cfg-model", initial_message |-> BaseMessage("cfg-hello"),
                          interrupt_sensitivity |-> "low"]),
     Selector("anthropic", EmptyDict),
     Selector("anthropic", [api_key |-> "cfg-anthropic"]),
     Selector("groq", EmptyDict),
     Selector("vertex_ai", EmptyDict),
     Selector("echo", [generate_responses |-> "False"]),
     Selector("llm", EmptyDict),
     Selector("unknownProvider", EmptyDict)}

TranscriberOptions ==
    {Selector("deepgram", EmptyDict),
     Selector("deepgram", [api_key |-> "cfg-deepgram", sampling_rate |-> "16000"]),
     Selector("deepgram", [model |-> "cfg-model", language |-> "fr"]),
     Selector("azure", EmptyDict),
     Selector("azure", [speech_key |-> "cfg-speech-key"]),
     Selector("google", EmptyDict),
     Selector("assembly_ai", EmptyDict),
     Selector("whisper_cpp", [chunk_size |-> "1600"]),
     Selector("rev_ai", EmptyDict),
     Selector("gladia", [api_key |-> "cfg-gladia"]),
     Selector("gladia", EmptyDict),
     Selector("unknownProvider", EmptyDict)}

SynthesizerOptions ==
    {Selector("eleven_labs", EmptyDict),
     Selector("eleven_labs", [api_key |-> "cfg-eleven", voice_id |-> "cfg-voice",
                              stability |-> "0.1", sampling_rate |-> "16000"]),
     Selector("azure", EmptyDict),
     Selector("azure", [speech_key |-> "cfg-speech-key", pitch |-> "5"]),
     Selector("google", EmptyDict),
     Selector("rime", EmptyDict),
     Selector("coqui", EmptyDict),
     Selector("play_ht", EmptyDict),
     Selector("gtts", [audio_encoding |-> "linear16"]),
     Selector("bark", EmptyDict),
     Selector("polly", EmptyDict),
     Selector("polly", [region_name |-> "cfg-region"]),
     Selector("cartesia", EmptyDict),
     Selector("unknownProvider", EmptyDict)}

TelephonyOptions ==
    {Selector("twilio", EmptyDict),
     Selector("twilio", [account_sid |-> "cfg-sid", extra |-> "cfg-extra"]),
     Selector("vonage", EmptyDict)}

RequestFields ==
    {"env_vars", "agent", "transcriber", "synthesizer", "telephony",
     "base_url", "from_phone", "prompt_preamble", "initial_message"}

FieldOptions(f) ==
    CASE f = "env_vars" -> EnvVarsOptions
      [] f = "agent" -> AgentOptions
      [] f = "transcriber" -> TranscriberOptions
      [] f = "synthesizer" -> SynthesizerOptions
      [] f = "telephony" -> TelephonyOptions
      [] f = "base_url" -> {"req.example"}
      [] f = "from_phone" -> {"", "+15550002222"}
      [] f = "prompt_preamble" -> {"req-prompt"}
      [] f = "initial_message" -> {"req-hello"}

\* {to_phone} and nothing else
BareRequest ==
    CallRequest("+15550001111", NoEnvVars, NoSelector, NoSelector, NoSelector,
                NoSelector, NoneV, NoneV, NoneV, NoneV)

RECURSIVE Deviate(_, _)
Deviate(S, k) ==
    IF k = 0 THEN S
    ELSE Deviate(S \cup UNION {{[q EXCEPT ![f] = o] : q \in S, o \in FieldOptions(f)} :
                                f \in RequestFields},
                 k - 1)

\* Requests posted while another request may be in flight: two callers with
\* their own overrides, with default and with azure/polly providers, and
\* callers that rely on the process environment.
ConcRequests ==
    {BareRequest,
     [BareRequest EXCEPT !.env_vars = FullOverride("ovA-")],
     [BareRequest EXCEPT !.env_vars = FullOverride("ovB-")],
     [BareRequest EXCEPT !.env_vars = FullOverride("ovB-"),
                         !.agent = Selector("anthropic", EmptyDict),
                         !.synthesizer = Selector("polly", EmptyDict)],
     [BareRequest EXCEPT !.transcriber = Selector("azure", EmptyDict),
                         !.synthesizer = Selector("play_ht", EmptyDict)]}

\* Requests that fill in several fields at once: an agent whose config and
\* whose request both carry a prompt, and overrides with non-default providers.
ScenarioRequests ==
    {[BareRequest EXCEPT !.agent = Selector("chatgpt", [prompt_preamble |-> "cfg-prompt"]),
                         !.prompt_preamble = "req-prompt"],
     [BareRequest EXCEPT !.env_vars = FullOverride("ovA-"),
                         !.transcriber = Selector("azure", EmptyDict),
                         !.synthesizer = Selector("azure", EmptyDict)],
     [BareRequest EXCEPT !.env_vars = PartialOverride,
                         !.transcriber = Selector("unknownProvider", EmptyDict),
                         !.synthesizer = Selector("unknownProvider", EmptyDict)]}

\* The requests posted: the bare request with at most MaxFields optional
\* fields filled in, and the requests above.
Requests == Deviate({BareRequest}, MaxFields) \cup ScenarioRequests \cup ConcRequests

\* What OutboundCall.start() returns, and the messages it fails with.
EngineResponses == {[conversation_id |-> "conv-1", telephony_id |-> "CA-1"]}

EngineFailures == {"carrier rejected the call"}

(***************************************************************************)
(* Specifications                                                          *)
(***************************************************************************)
NoRequest ==
    CallRequest("", NoEnvVars, NoSelector, NoSelector, NoSelector, NoSelector,
                NoneV, NoneV, NoneV, NoneV)

InitWith(slots, envs) ==
    /\ env \in envs
    /\ request = [r \in slots |-> NoRequest]
    /\ pc = [r \in slots |-> "idle"]
    /\ resolved = [r \in slots |-> Unresolved]
    /\ outbound = [r \in slots |-> NoOutboundCall]
    /\ engine = [r \in slots |-> NoEngine]
    /\ response = [r \in slots |-> NoResponse]
    /\ envWrites = 0

\* One request, any of Requests, in any of Environments.
Init == InitWith({1}, Environments)

Next ==
    \/ \E r \in DOMAIN pc : StartCall(r, Requests)
    \/ \E r \in DOMAIN pc : \E engine_response \in EngineResponses :
          StartReturns(r, engine_response)
    \/ \E r \in DOMAIN pc : \E msg \in EngineFailures : StartRaises(r, msg)

Spec == Init /\ [][Next]_vars

\* The values an environment variable is changed to: unset, or a new value.
NewEnvValues(n) == {NoneV, "env2-" \o n}

\* Two request slots served by one event loop, with the process environment
\* changing underneath.
InitConc == InitWith({1, 2}, {AllSet})

NextConc ==
    \/ \E r \in DOMAIN pc : StartCall(r, ConcRequests)
    \/ \E r \in DOMAIN pc : \E engine_response \in EngineResponses :
          StartReturns(r, engine_response)
    \/ \E r \in DOMAIN pc : \E msg \in EngineFailures : StartRaises(r, msg)
    \/ \E n \in EnvNames : \E v \in NewEnvValues(n) : SetEnv(n, v)

SpecConc == InitConc /\ [][NextConc]_vars

(***************************************************************************)
(* Properties                                                              *)
(***************************************************************************)
Slots == DOMAIN pc

\* The override the request in slot r carries for an EnvironmentVariables field
OverrideOf(r, key) ==
    IF request[r].env_vars.given /\ key \in DOMAIN request[r].env_vars.vals
    THEN request[r].env_vars.vals[key]
    ELSE NoneV

\* Every get_env_value call of a resolution, in call order
AllLookups(res) ==
    res.origin_lookups \o res.agent.lookups \o res.transcriber.lookups
        \o res.synthesizer.lookups \o res.telephony.lookups

LookupsOf(r) == {AllLookups(resolved[r])[i] : i \in 1..Len(AllLookups(resolved[r]))}

MissingCredential(env_key) ==
    [kind |-> "HTTPException", status_code |-> 400,
     detail |-> "Required environment variable '" \o env_key
                    \o "' not found in request or system environment"]

\* C1 (as claimed): a request whose resolution failed (unsupported type, or a
\* secret or origin number found nowhere) is answered with status 400; only
\* a failure of the engine's start operation is answered with 500.
C1_ResolutionFailureIs400 ==
    \A r \in Slots :
        (pc[r] = "done" /\ resolved[r].err # NoError) => response[r].status_code = 400

\* C2: every get_env_value call returns the non-empty request override if
\* there is one, else the non-empty process environment value if there is
\* one, else raises an error naming the environment variable.
C2_Precedence ==
    \A r \in Slots : \A l \in LookupsOf(r) :
        LET ov == OverrideOf(r, l.key)
            ev == env[l.env_key]
        IN  IF ov # NoneV /\ ov # ""
            THEN l.res.ok /\ l.res.value = ov
            ELSE IF ev # NoneV /\ ev # ""
            THEN l.res.ok /\ l.res.value = ev
            ELSE ~l.res.ok /\ l.res.err = MissingCredential(l.env_key)

\* C2 witness: a call that found an override and a different environment
\* value and returned the override.
C2_Witness ==
    \E r \in Slots : \E l \in LookupsOf(r) :
        /\ OverrideOf(r, l.key) \notin {NoneV, ""}
        /\ env[l.env_key] \notin {NoneV, "", OverrideOf(r, l.key)}
        /\ l.res.value = OverrideOf(r, l.key)

Builders == {"agent", "transcriber", "synthesizer", "telephony"}

\* C3: the engine's start operation is invoked only when the origin number
\* and all four sub-configurations were resolved, and it is handed exactly
\* those; a request whose resolution failed builds no OutboundCall, invokes
\* nothing and is answered without any configuration.
C3_AllOrNothing ==
    \A r \in Slots :
        /\ (engine[r].calls > 0 \/ outbound[r].created) =>
              /\ resolved[r].err = NoError
              /\ resolved[r].from_phone.ok
              /\ \A b \in Builders : resolved[r][b].ok /\ resolved[r][b].config # NoConfig
              /\ outbound[r].from_phone = resolved[r].from_phone.value
              /\ outbound[r].agent_config = resolved[r].agent.config
              /\ outbound[r].transcriber_config = resolved[r].transcriber.config
              /\ outbound[r].synthesizer_config = resolved[r].synthesizer.config
              /\ outbound[r].telephony_config = resolved[r].telephony.config
        /\ (pc[r] # "idle" /\ (~resolved[r].from_phone.ok \/ \E b \in Builders : ~resolved[r][b].ok)) =>
              /\ engine[r].calls = 0
              /\ ~outbound[r].created
              /\ pc[r] = "done"
              /\ response[r].status_code \notin {0, 200}
              /\ response[r].configuration = NoConfiguration

\* C3 witness: the last builder fails after the other three succeeded, and
\* nothing is dispatched.
C3_Witness ==
    \E r \in Slots :
        /\ resolved[r].agent.ok /\ resolved[r].transcriber.ok /\ resolved[r].synthesizer.ok
        /\ resolved[r].invoked = <<"agent", "transcriber", "synthesizer", "telephony">>
        /\ ~resolved[r].telephony.ok
        /\ pc[r] = "done" /\ engine[r].calls = 0

SupportedTypes(b) ==
    CASE b = "agent" -> get_supported_services.agents
      [] b = "transcriber" -> get_supported_services.transcribers
      [] b = "synthesizer" -> get_supported_services.synthesizers
      [] b = "telephony" -> get_supported_services.telephony

UnsupportedProviderType(b, type) ==
    [kind |-> "HTTPException", status_code |-> 400,
     detail |-> "Unsupported " \o b \o " type: " \o type]

OptionalSecrets ==
    {"openai_api_key", "anthropic_api_key", "groq_api_key", "eleven_labs_voice_id"}

C6_ExplicitValueWins ==
    \A r \in Slots : \A b \in Builders :
        resolved[r][b].ok =>
            \A k \in DOMAIN request[r][b].config :
                /\ k \in DOMAIN resolved[r][b].config.params
                /\ resolved[r][b].config.params[k] = request[r][b].config[k]

\* C7: the engine's start operation is invoked at most once per request;
\* when it raises, it is not invoked again and the caller gets status 500
\* with the cause's message.
C7_NoRetry ==
    \A r \in Slots :
        /\ engine[r].calls <= 1
        /\ engine[r].outcome = "raised" =>
              /\ engine[r].calls = 1
              /\ pc[r] = "done"
              /\ response[r].status_code = 500
              /\ response[r].detail = "Failed to start call: " \o engine[r].cause

\* C7 witness: the engine's start operation has raised.
C7_Witness ==
    \E r \in Slots :
        engine[r].outcome = "raised" /\ engine[r].cause \in EngineFailures /\ pc[r] = "done"

\* The override a request carries for an EnvironmentVariables field
OverrideIn(req, key) ==
    IF req.env_vars.given /\ key \in DOMAIN req.env_vars.vals
    THEN req.env_vars.vals[key]
    ELSE NoneV

\* Slot r takes the step from receiving its request to its only await.
Resolves(r) == pc[r] = "idle" /\ pc'[r] # "idle"

\* C8: when a request is resolved while another is in flight, every secret
\* it overrides resolves to its own override and not to the other request's
\* different override, its carrier configuration and origin number hold its
\* own overrides, and the step writes neither the process environment nor
\* anything belonging to the other request.
C8_NoCrossContamination ==
    [][\A r \in Slots : Resolves(r) =>
          /\ env' = env
          /\ \A q \in Slots \ {r} :
                /\ request'[q] = request[q] /\ resolved'[q] = resolved[q]
                /\ outbound'[q] = outbound[q] /\ engine'[q] = engine[q]
                /\ response'[q] = response[q] /\ pc'[q] = pc[q]
          /\ \A i \in 1..Len(AllLookups(resolved'[r])) :
                LET l == AllLookups(resolved'[r])[i]
                    own == OverrideIn(request'[r], l.key)
                IN  (own # NoneV /\ own # "") =>
                        /\ l.res.ok /\ l.res.value = own
                        /\ \A q \in Slots \ {r} :
                              OverrideIn(request[q], l.key) # own =>
                                  l.res.value # OverrideIn(request[q], l.key)
          /\ (resolved'[r].telephony.ok /\ OverrideIn(request'[r], "twilio_account_sid") \notin {NoneV, ""}) =>
                outbound'[r].telephony_config.params.account_sid =
                    OverrideIn(request'[r], "twilio_account_sid")
          /\ (resolved'[r].telephony.ok /\ OverrideIn(request'[r], "twilio_auth_token") \notin {NoneV, ""}) =>
                outbound'[r].telephony_config.params.auth_token =
                    OverrideIn(request'[r], "twilio_auth_token")
          /\ (resolved'[r].telephony.ok /\ OverrideIn(request'[r], "twilio_phone_number") \notin {NoneV, ""}) =>
                outbound'[r].from_phone = OverrideIn(request'[r], "twilio_phone_number")
      ]_vars

\* C8 witness: two requests in flight at once whose overrides of the carrier
\* account differ, each dispatched with its own.
C8_Witness ==
    \E r, q \in Slots :
        /\ r # q /\ pc[r] = "awaiting" /\ pc[q] = "awaiting"
        /\ OverrideOf(r, "twilio_account_sid") \notin {NoneV, ""}
        /\ OverrideOf(q, "twilio_account_sid") \notin {NoneV, "", OverrideOf(r, "twilio_account_sid")}
        /\ outbound[r].telephony_config.params.account_sid = OverrideOf(r, "twilio_account_sid")
        /\ outbound[q].telephony_config.params.account_sid = OverrideOf(q, "twilio_account_sid")

\* C9: every secret a request resolves without an override is the value the
\* process environment holds when that request is resolved (and the lookup
\* fails exactly if the environment then holds none), whatever the
\* environment held at startup or when an earlier request was resolved.
C9_FreshEnvironment ==
    [][\A r \in Slots : Resolves(r) =>
          \A i \in 1..Len(AllLookups(resolved'[r])) :
              LET l == AllLookups(resolved'[r])[i]
                  own == OverrideIn(request'[r], l.key)
              IN  (own = NoneV \/ own = "") =>
                      IF env[l.env_key] # NoneV /\ env[l.env_key] # ""
                      THEN l.res.ok /\ l.res.value = env[l.env_key]
                      ELSE ~l.res.ok
      ]_vars

\* C9 witness: two requests resolved the same secret from the environment
\* and got different answers, the environment having changed in between.
C9_Witness ==
    \E r, q \in Slots : \E l \in LookupsOf(r) : \E m \in LookupsOf(q) :
        /\ r # q /\ l.env_key = m.env_key
        /\ OverrideOf(r, l.key) = NoneV /\ OverrideOf(q, m.key) = NoneV
        /\ l.res.ok /\ l.res.value = AllSet[l.env_key]
        /\ m.res # l.res
        /\ envWrites > 0

\* C10: the request {to_phone} in an environment with every secret set is
\* resolved with the chatgpt, deepgram, eleven_labs and twilio providers and
\* the default prompt and is dispatched once; and every 200 response reports
\* the provider types whose configurations were built and dispatched.
C10_Defaults ==
    \A r \in Slots :
        /\ (pc[r] # "idle" /\ request[r] = BareRequest
                /\ \A n \in EnvNames : env[n] \notin {NoneV, ""}) =>
              /\ resolved[r].err = NoError
              /\ engine[r].calls = 1
              /\ outbound[r].agent_config.class = "ChatGPTAgentConfig"
              /\ outbound[r].transcriber_config.class = "DeepgramTranscriberConfig"
              /\ outbound[r].synthesizer_config.class = "ElevenLabsSynthesizerConfig"
              /\ outbound[r].telephony_config.class = "TwilioConfig"
              /\ outbound[r].agent_config.params.prompt_preamble = DEFAULT_BOT_PROMPT
              /\ outbound[r].from_phone = env["TWILIO_PHONE_NUMBER"]
              /\ response[r].status_code = 200 =>
                    response[r].configuration =
                        [agent_type |-> "chatgpt", transcriber_type |-> "deepgram",
                         synthesizer_type |-> "eleven_labs", telephony_type |-> "twilio"]
        /\ response[r].status_code = 200 =>
              /\ outbound[r].agent_config.class =
                    AGENT_CONFIG_MAP[response[r].configuration.agent_type]
              /\ outbound[r].transcriber_config.class =
                    TRANSCRIBER_CONFIG_MAP[response[r].configuration.transcriber_type]
              /\ outbound[r].synthesizer_config.class =
                    SYNTHESIZER_CONFIG_MAP[response[r].configuration.synthesizer_type]
              /\ response[r].configuration.telephony_type = "twilio"
              /\ outbound[r].telephony_config.class = "TwilioConfig"

\* C10 witness: the bare request has been dispatched and answered with 200.
C10_Witness ==
    \E r \in Slots :
        /\ request[r] = BareRequest
        /\ \A n \in EnvNames : env[n] \notin {NoneV, ""}
        /\ pc[r] = "done" /\ response[r].status_code = 200
        /\ engine[r].calls = 1

\* The order in which start_call calls the builders
BuilderOrder == <<"agent", "transcriber", "synthesizer", "telephony">>

BuilderIndex(b) == CHOOSE i \in 1..Len(BuilderOrder) : BuilderOrder[i] = b

\* The builders of slot r ran in the fixed order and stopped at the first
\* one that raised: invoked is a prefix of BuilderOrder, every builder in it
\* but the last returned, a builder outside it was never called, and the
\* error that leaves the try block is the last builder's.
StopsAtFirstFailure(r) ==
    LET n == Len(resolved[r].invoked)
    IN  /\ n <= Len(BuilderOrder)
        /\ \A i \in 1..n : resolved[r].invoked[i] = BuilderOrder[i]
        /\ \A i \in 1..Len(BuilderOrder) :
              /\ i < n => resolved[r][BuilderOrder[i]].ok
              /\ i > n => resolved[r][BuilderOrder[i]] = NotBuilt
        /\ n > 0 => resolved[r].err = resolved[r][BuilderOrder[n]].err
        /\ (n > 0 /\ n < Len(BuilderOrder)) => ~resolved[r][BuilderOrder[n]].ok

\* A builder called before b raised.
EarlierBuilderFailed(r, b) ==
    \E i \in 1..(BuilderIndex(b) - 1) :
        /\ i <= Len(resolved[r].invoked)
        /\ ~resolved[r][BuilderOrder[i]].ok

\* In slot r, a request selecting an unsupported type in domain b surfaces
\* that domain's unsupported-type error, b being the last builder called.
SurfacesUnsupported(r, b) ==
    /\ resolved[r].err = UnsupportedProviderType(b, request[r][b].type)
    /\ Len(resolved[r].invoked) = BuilderIndex(b)

\* C11 (as claimed): the builders run in the order agent, transcriber,
\* synthesizer, telephony and stop at the first failure; an unsupported type
\* in a domain is the error surfaced unless an earlier builder failed, no
\* later builder is called, and nothing fails before the agent builder is
\* reached.
C11_FixedOrder ==
    \A r \in Slots :
        pc[r] # "idle" =>
            /\ StopsAtFirstFailure(r)
            /\ Len(resolved[r].invoked) >= 1
            /\ \A b \in Builders :
                  (request[r][b].given /\ request[r][b].type \notin SupportedTypes(b)
                       /\ ~EarlierBuilderFailed(r, b)) => SurfacesUnsupported(r, b)

\* C11 (amended): as above, except that the origin-number lookup runs before
\* the agent builder: when it fails no builder is called and its
\* missing-credential error is the one surfaced; otherwise the agent builder
\* is reached and an unsupported type is surfaced unless an earlier builder
\* failed.
C11_FixedOrderAfterOrigin ==
    \A r \in Slots :
        pc[r] # "idle" =>
            /\ StopsAtFirstFailure(r)
            /\ IF resolved[r].from_phone.ok
               THEN /\ Len(resolved[r].invoked) >= 1
                    /\ \A b \in Builders :
                          (request[r][b].given /\ request[r][b].type \notin SupportedTypes(b)
                               /\ ~EarlierBuilderFailed(r, b)) => SurfacesUnsupported(r, b)
               ELSE /\ resolved[r].invoked = <<>>
                    /\ resolved[r].err = MissingCredential("TWILIO_PHONE_NUMBER")
                    /\ engine[r].calls = 0

\* C11 witness: an unsupported synthesizer type is surfaced after the agent
\* and transcriber builders returned, and the telephony builder is not called.
C11_Witness ==
    \E r \in Slots :
        /\ request[r].synthesizer.given
        /\ request[r].synthesizer.type \notin SupportedTypes("synthesizer")
        /\ resolved[r].from_phone.ok
        /\ resolved[r].invoked = <<"agent", "transcriber", "synthesizer">>
        /\ resolved[r].telephony = NotBuilt
        /\ resolved[r].err = UnsupportedProviderType("synthesizer", request[r].synthesizer.type)
        /\ pc[r] = "done"

\* The selector create_transcriber_config works on in slot r
TranscriberOf(r) ==
    IF request[r].transcriber.given THEN request[r].transcriber ELSE DefaultTranscriber

\* C12: a provider-specific default is applied to every parameter the caller
\* left out, whatever else the caller supplied: a built deepgram transcriber
\* whose config omits model has model "nova-2" (and keeps a model the caller
\* gave), and a built azure transcriber whose config omits speech_region has
\* speech_region resolved.
C12_ProviderDefaults ==
    \A r \in Slots :
        (pc[r] # "idle" /\ resolved[r].transcriber.ok) =>
            LET sel == TranscriberOf(r)
                params == resolved[r].transcriber.config.params
            IN  /\ sel.type = "deepgram" =>
                      /\ "model" \in DOMAIN params
                      /\ params["model"] = IF "model" \in DOMAIN sel.config
                                           THEN sel.config["model"]
                                           ELSE "nova-2"
                /\ sel.type = "azure" => "speech_region" \in DOMAIN params

====
